---- MODULE Spec2Model ----
(***************************************************************************)
(* The timer engine of components/timer (hook useTimer) as a state         *)
(* machine.  React state is the four useState cells; the tick driver is    *)
(* the setInterval registered by the hook's effect and remembered in       *)
(* intervalRef.  One action is one event-loop task: the handler or the     *)
(* interval callback, the state updates it queues, the re-render, and the  *)
(* effect cleanup / effect body that the re-render triggers.               *)
(*                                                                         *)
(* Time is discrete: one second is PhaseSteps steps of Advance, and an     *)
(* interval fires when its remaining time `left` has reached 0.            *)
(*                                                                         *)
(* TimerDisplay is the second component: its effect keeps the animated     *)
(* progress of the ring (in sixtieths of CIRCUMFERENCE) and prevMinuteRef. *)
(* An animation is abstracted to its start value and its target: a frame   *)
(* step, or time passing, takes the value to the target.                   *)
(***************************************************************************)
EXTENDS Integers, FiniteSets, Sequences, TLC

\* ---- bounds of the model ------------------------------------------------
\* largest count the incrementer is allowed to reach
MaxCount == 61
\* number of Advance steps that make up the 1000 ms period of an interval
PhaseSteps == 2
\* interval ids are handed out round-robin from 1..MaxIds (0 is null)
MaxIds == 3
\* largest count handed to TimerDisplay when it is checked on its own
MaxProps == 6000

VARIABLES
  seconds,         \* useState(0)
  isRunning,       \* useState(false)
  isCountingDown,  \* useState(false)
  isAutoRestart,   \* useState(false)
  intervalRef,     \* useRef(null): id of the interval set last, 0 = null
  timers,          \* intervals registered with the host and not cleared
  mounted,         \* the component is mounted
  view,            \* values captured by the callbacks of the last render
  display,         \* TimerDisplay: animatedProgress (value, target) and
                   \* prevMinuteRef
  screen,          \* TimerDisplay: the two texts it renders; a text is
                   \* the sequence of its characters
  snapped,         \* history: the display effect of the last step reset
                   \* animatedProgress to 0
  last,            \* history: the operation that produced this state
  pre,             \* history: the program state before that operation
  obs,             \* history: ticks delivered since stop() began a countdown
  stopped,         \* history: a countdown completed without restart, and
                   \* neither start() nor reset() was called since
  autoAtStop       \* history: isAutoRestart when stop() began the latest
                   \* countdown

vars == <<seconds, isRunning, isCountingDown, isAutoRestart, intervalRef,
          timers, mounted, view, display, screen, snapped, last, pre, obs,
          stopped, autoAtStop>>

\* the program state as one value (what `pre` remembers)
Prog ==
  [seconds |-> seconds, isRunning |-> isRunning,
   isCountingDown |-> isCountingDown, isAutoRestart |-> isAutoRestart,
   intervalRef |-> intervalRef, timers |-> timers, mounted |-> mounted,
   display |-> display]

NoObs == [live |-> FALSE, from |-> 0, ticks |-> 0]

\* ---- the host's timers ----------------------------------------------------
\* setInterval returns an id that no live interval has
NewId(ref) == (ref % MaxIds) + 1

\* setInterval(cb, 1000): cb is "inc" or "dec"; the decrementer's closure
\* holds the isAutoRestart of the render that ran the effect
SetInterval(T, id, kind, auto) ==
  T \cup {[id |-> id, kind |-> kind, auto |-> auto, left |-> PhaseSteps]}

ClearInterval(T, id) == {t \in T : t.id # id}

\* ---- useTimer: the effect ---------------------------------------------------
\* EffectCleanup with the clearInterval call left out
EffectCleanupKeepsInterval(ref, T) == T

\* the cleanup returned by the effect
EffectCleanup(ref, T) == IF ref # 0 THEN ClearInterval(T, ref) ELSE T

\* the effect body, run with the values of the new render
EffectBody(r, c, a, ref, T) ==
  IF r /\ ~c
    THEN [ref |-> NewId(ref), timers |-> SetInterval(T, NewId(ref), "inc", a)]
    ELSE IF c
      THEN [ref |-> NewId(ref), timers |-> SetInterval(T, NewId(ref), "dec", a)]
      ELSE [ref |-> ref, timers |-> T]

\* RunEffect with isAutoRestart missing from the dependency list
RunEffectWithoutAutoRestart(r, c, a, ref, T) ==
  IF <<r, c>> # <<isRunning, isCountingDown>>
    THEN EffectBody(r, c, a, ref, EffectCleanup(ref, T))
    ELSE [ref |-> ref, timers |-> T]

\* the effect re-runs (cleanup, then body) when a dependency changed
RunEffect(r, c, a, ref, T) ==
  IF <<r, c, a>> # <<isRunning, isCountingDown, isAutoRestart>>
    THEN EffectBody(r, c, a, ref, EffectCleanup(ref, T))
    ELSE [ref |-> ref, timers |-> T]

\* ---- TimerDisplay ---------------------------------------------------------------
SecondsPerMinute == 60

\* the % of JavaScript: the result has the sign of the dividend
Remainder(a, b) == IF a >= 0 THEN a % b ELSE -((-a) % b)

\* Math.floor(seconds / 60)
currentMinute(s) == s \div SecondsPerMinute

secondsInMinute(s) == Remainder(s, SecondsPerMinute)

\* targetProgress in sixtieths of CIRCUMFERENCE
targetProgress(s) == secondsInMinute(s)

\* DisplayEffect with prevMinuteRef assigned outside the minute test
DisplayEffectAlwaysTracks(s, c, d) ==
  IF currentMinute(s) # d.prevMinute /\ ~c
    THEN [value |-> 0, target |-> targetProgress(s),
          prevMinute |-> currentMinute(s), snapped |-> TRUE]
    ELSE [value |-> d.value, target |-> targetProgress(s),
          prevMinute |-> currentMinute(s), snapped |-> FALSE]

\* DisplayEffect with the minute test lacking !isCountingDown
DisplayEffectSnapsInCountdown(s, c, d) ==
  IF currentMinute(s) # d.prevMinute
    THEN [value |-> 0, target |-> targetProgress(s),
          prevMinute |-> currentMinute(s), snapped |-> TRUE]
    ELSE [value |-> d.value, target |-> targetProgress(s),
          prevMinute |-> d.prevMinute, snapped |-> FALSE]

\* the display effect: the minute test, then withTiming(targetProgress)
DisplayEffect(s, c, d) ==
  IF currentMinute(s) # d.prevMinute /\ ~c
    THEN [value |-> 0, target |-> targetProgress(s),
          prevMinute |-> currentMinute(s), snapped |-> TRUE]
    ELSE [value |-> d.value, target |-> targetProgress(s),
          prevMinute |-> d.prevMinute, snapped |-> FALSE]

\* the display effect re-runs when seconds or isCountingDown changed
RunDisplayEffect(s, c, d) ==
  IF <<s, c>> # <<view.seconds, view.isCountingDown>>
    THEN DisplayEffect(s, c, d)
    ELSE [value |-> d.value, target |-> d.target,
          prevMinute |-> d.prevMinute, snapped |-> FALSE]

\* ---- TimerDisplay: the texts ---------------------------------------------------
Digits == <<"0", "1", "2", "3", "4", "5", "6", "7", "8", "9">>

\* Number.prototype.toString of an integer
RECURSIVE toString(_)
toString(n) ==
  IF n < 0 THEN <<"-">> \o toString(-n)
  ELSE IF n < 10 THEN <<Digits[n + 1]>>
  ELSE toString(n \div 10) \o <<Digits[(n % 10) + 1]>>

\* String.prototype.padStart with a one-character filler
RECURSIVE padStart(_, _, _)
padStart(str, len, ch) ==
  IF Len(str) >= len THEN str ELSE padStart(<<ch>> \o str, len, ch)

\* formatTime with the minutes wrapped at 60
formatTimeWrapsMinutes(totalSeconds) ==
  padStart(toString((totalSeconds \div 60) % 60), 2, "0")
    \o <<":">> \o padStart(toString(totalSeconds % 60), 2, "0")

formatTime(totalSeconds) ==
  padStart(toString(totalSeconds \div 60), 2, "0")
    \o <<":">> \o padStart(toString(Remainder(totalSeconds, 60)), 2, "0")

\* getStatusText testing isRunning first
getStatusTextRunningFirst(s, r, c) ==
  IF r THEN "Running"
  ELSE IF c THEN "Counting Down"
  ELSE IF s = 0 THEN "Ready"
  ELSE "Stopped"

getStatusText(s, r, c) ==
  IF c THEN "Counting Down"
  ELSE IF r THEN "Running"
  ELSE IF s = 0 THEN "Ready"
  ELSE "Stopped"

\* what TimerDisplay renders from its props
Rendered(s, r, c) ==
  [label |-> formatTime(s), status |-> getStatusText(s, r, c)]

\* the re-render that follows the queued state updates
Commit(s, r, c, a, T) ==
  /\ seconds' = s
  /\ isRunning' = r
  /\ isCountingDown' = c
  /\ isAutoRestart' = a
  /\ intervalRef' = RunEffect(r, c, a, intervalRef, T).ref
  /\ timers' = RunEffect(r, c, a, intervalRef, T).timers
  /\ view' = [seconds |-> s, isRunning |-> r, isCountingDown |-> c]
  /\ display' = [value |-> RunDisplayEffect(s, c, display).value,
                 target |-> RunDisplayEffect(s, c, display).target,
                 prevMinute |-> RunDisplayEffect(s, c, display).prevMinute]
  /\ snapped' = RunDisplayEffect(s, c, display).snapped
  /\ screen' = Rendered(s, r, c)

\* ---- useTimer: the interval callbacks ----------------------------------------
\* incUpdater adding 2
incUpdaterByTwo(prev) == prev + 2

\* the updater of the increment interval
incUpdater(prev) == prev + 1

\* decUpdater testing prev < 0 instead of prev <= 0
decUpdaterLateStop(prev, auto) ==
  IF prev < 0
    THEN [seconds |-> 0, clearCountingDown |-> TRUE, setRunning |-> auto]
    ELSE [seconds |-> prev - 1, clearCountingDown |-> FALSE, setRunning |-> FALSE]

\* decUpdater calling setIsRunning(true) whatever isAutoRestart is
decUpdaterAlwaysRestarts(prev, auto) ==
  IF prev <= 0
    THEN [seconds |-> 0, clearCountingDown |-> TRUE, setRunning |-> TRUE]
    ELSE [seconds |-> prev - 1, clearCountingDown |-> FALSE, setRunning |-> FALSE]

\* decUpdater without the setIsCountingDown(false) call
decUpdaterNeverLeaves(prev, auto) ==
  IF prev <= 0
    THEN [seconds |-> 0, clearCountingDown |-> FALSE, setRunning |-> FALSE]
    ELSE [seconds |-> prev - 1, clearCountingDown |-> FALSE, setRunning |-> FALSE]

\* the updater of the countdown interval and the setters it calls
decUpdater(prev, auto) ==
  IF prev <= 0
    THEN [seconds |-> 0, clearCountingDown |-> TRUE, setRunning |-> auto]
    ELSE [seconds |-> prev - 1, clearCountingDown |-> FALSE, setRunning |-> FALSE]

\* the host re-arms a fired interval
Rearm(T, t) == (T \ {t}) \cup {[t EXCEPT !.left = PhaseSteps]}

Init ==
  /\ seconds = 0
  /\ isRunning = FALSE
  /\ isCountingDown = FALSE
  /\ isAutoRestart = FALSE
  /\ intervalRef = 0
  /\ timers = {}
  /\ mounted = TRUE
  /\ view = [seconds |-> 0, isRunning |-> FALSE, isCountingDown |-> FALSE]
  /\ display = [value |-> 0, target |-> 0, prevMinute |-> 0]
  /\ snapped = FALSE
  /\ screen = Rendered(0, FALSE, FALSE)
  /\ last = "init"
  /\ pre = [seconds |-> 0, isRunning |-> FALSE, isCountingDown |-> FALSE,
            isAutoRestart |-> FALSE, intervalRef |-> 0, timers |-> {},
            mounted |-> TRUE,
            display |-> [value |-> 0, target |-> 0, prevMinute |-> 0]]
  /\ obs = NoObs
  /\ stopped = FALSE
  /\ autoAtStop = FALSE

\* ---- the commands ---------------------------------------------------------------
\* the callbacks read isRunning, isCountingDown and seconds from the render
\* that built them (v); r and c are the state cells they may overwrite

\* startRunning without the isCountingDown test
startRunningDuringCountdown(v, r) == IF ~v.isRunning THEN TRUE ELSE r

\* start: the value of isRunning after the handler
startRunning(v, r) == IF ~v.isRunning /\ ~v.isCountingDown THEN TRUE ELSE r

\* stopRunning without setIsRunning(false)
stopRunningKeeps(v, r) == r

\* stop: the value of isRunning after the handler
stopRunning(v, r) == IF v.isRunning THEN FALSE ELSE r

\* stopCountingDown written as setIsCountingDown(isRunning && seconds > 0)
stopCountingDownAssigns(v, c) == v.isRunning /\ v.seconds > 0

\* stopCountingDown testing seconds >= 0 instead of seconds > 0
stopCountingDownFromZero(v, c) ==
  IF v.isRunning /\ v.seconds >= 0 THEN TRUE ELSE c

\* stopCountingDown without the setIsCountingDown(true) branch
stopCountingDownNever(v, c) == c

\* stop: the value of isCountingDown after the handler
stopCountingDown(v, c) == IF v.isRunning /\ v.seconds > 0 THEN TRUE ELSE c

\* toggleAutoRestart: the updater
toggleUpdater(prev) == ~prev

start ==
  /\ mounted
  /\ Commit(seconds, startRunning(view, isRunning), isCountingDown,
            isAutoRestart, timers)
  /\ last' = "start" /\ pre' = Prog /\ obs' = NoObs
  /\ stopped' = FALSE
  /\ UNCHANGED <<mounted, autoAtStop>>

stop ==
  /\ mounted
  /\ Commit(seconds, stopRunning(view, isRunning),
            stopCountingDown(view, isCountingDown), isAutoRestart, timers)
  /\ last' = "stop" /\ pre' = Prog
  /\ obs' = IF isRunning /\ stopCountingDown(view, isCountingDown)
              THEN [live |-> TRUE, from |-> seconds, ticks |-> 0]
              ELSE NoObs
  /\ autoAtStop' = IF isRunning /\ stopCountingDown(view, isCountingDown)
                     THEN isAutoRestart ELSE autoAtStop
  /\ UNCHANGED <<mounted, stopped>>

\* reset without setIsCountingDown(false)
resetKeepsCountdown ==
  /\ mounted
  /\ Commit(0, FALSE, isCountingDown, isAutoRestart, timers)
  /\ last' = "reset" /\ pre' = Prog /\ obs' = NoObs
  /\ stopped' = FALSE
  /\ UNCHANGED <<mounted, autoAtStop>>

reset ==
  /\ mounted
  /\ Commit(0, FALSE, FALSE, isAutoRestart, timers)
  /\ last' = "reset" /\ pre' = Prog /\ obs' = NoObs
  /\ stopped' = FALSE
  /\ UNCHANGED <<mounted, autoAtStop>>

toggleAutoRestart ==
  /\ mounted
  /\ Commit(seconds, isRunning, isCountingDown, toggleUpdater(isAutoRestart),
            timers)
  /\ last' = "toggle" /\ pre' = Prog /\ obs' = NoObs
  /\ UNCHANGED <<mounted, stopped, autoAtStop>>

\* ---- the tick driver --------------------------------------------------------------
\* the callback of a due interval runs
Tick(t) ==
  /\ t.left = 0
  /\ IF t.kind = "inc"
       THEN /\ seconds < MaxCount
            /\ Commit(incUpdater(seconds), isRunning, isCountingDown,
                      isAutoRestart, Rearm(timers, t))
       ELSE Commit(decUpdater(seconds, t.auto).seconds,
                   IF decUpdater(seconds, t.auto).setRunning
                     THEN TRUE ELSE isRunning,
                   IF decUpdater(seconds, t.auto).clearCountingDown
                     THEN FALSE ELSE isCountingDown,
                   isAutoRestart, Rearm(timers, t))
  /\ last' = "tick" /\ pre' = Prog
  /\ obs' = IF obs.live /\ isCountingDown
              THEN [obs EXCEPT !.ticks = @ + 1]
              ELSE NoObs
  /\ stopped' = IF isCountingDown /\ ~isCountingDown' /\ ~isRunning'
                  THEN TRUE ELSE stopped
  /\ UNCHANGED <<mounted, autoAtStop>>

\* time passes while no registered interval is due and no render is pending
Advance ==
  /\ timers # {}
  /\ view.seconds = seconds
  /\ \A t \in timers : t.left > 0
  /\ timers' = {[t EXCEPT !.left = @ - 1] : t \in timers}
  /\ display' = [display EXCEPT !.value = display.target]
  /\ snapped' = FALSE
  /\ last' = "advance" /\ pre' = Prog
  /\ UNCHANGED <<seconds, isRunning, isCountingDown, isAutoRestart,
                 intervalRef, mounted, view, screen, obs, stopped,
                 autoAtStop>>

\* the running animation reaches its target
AnimationFrame ==
  /\ mounted
  /\ display.value # display.target
  /\ display' = [display EXCEPT !.value = display.target]
  /\ snapped' = FALSE
  /\ last' = "frame" /\ pre' = Prog
  /\ UNCHANGED <<seconds, isRunning, isCountingDown, isAutoRestart,
                 intervalRef, timers, mounted, view, screen, obs, stopped,
                 autoAtStop>>

\* the component unmounts: React runs the effect's cleanup
Unmount ==
  /\ mounted
  /\ mounted' = FALSE
  /\ timers' = EffectCleanup(intervalRef, timers)
  /\ last' = "unmount" /\ pre' = Prog /\ obs' = NoObs
  /\ stopped' = FALSE
  /\ snapped' = FALSE
  /\ UNCHANGED <<seconds, isRunning, isCountingDown, isAutoRestart,
                 intervalRef, view, display, screen, autoAtStop>>

Next ==
  \/ start
  \/ stop
  \/ reset
  \/ toggleAutoRestart
  \/ \E t \in timers : Tick(t)
  \/ Advance
  \/ AnimationFrame
  \/ Unmount

Spec == Init /\ [][Next]_vars

\* the host lets time pass and delivers the callback of every due interval
SpecFair ==
  /\ Init
  /\ [][Next]_vars
  /\ WF_vars(Advance)
  /\ WF_vars(\E t \in timers : Tick(t))

\* ---- the re-render as a task of its own ---------------------------------------
\* React renders the update queued by an interval callback in a later task
\* of the event loop; a press handled before that task runs the callbacks
\* of the previous render.  Only the increment tick is split here: its
\* update touches no dependency of the effect.

\* the callback of the due increment interval runs; the render is pending
TickDeferred(t) ==
  /\ t.left = 0
  /\ t.kind = "inc"
  /\ seconds < MaxCount
  /\ view.seconds = seconds
  /\ seconds' = incUpdater(seconds)
  /\ timers' = Rearm(timers, t)
  /\ snapped' = FALSE
  /\ last' = "tick" /\ pre' = Prog /\ obs' = NoObs
  /\ UNCHANGED <<isRunning, isCountingDown, isAutoRestart, intervalRef,
                 mounted, view, display, screen, stopped, autoAtStop>>

\* the pending render runs
Render ==
  /\ mounted
  /\ view.seconds # seconds
  /\ Commit(seconds, isRunning, isCountingDown, isAutoRestart, timers)
  /\ last' = "rerender" /\ pre' = Prog
  /\ UNCHANGED <<mounted, obs, stopped, autoAtStop>>

NextDeferred ==
  \/ Next
  \/ \E t \in timers : TickDeferred(t)
  \/ Render

SpecDeferred == Init /\ [][NextDeferred]_vars

\* ---- TimerDisplay on its own ----------------------------------------------------
\* TimerDisplay is handed any props and has not rendered yet
InitDisplay ==
  /\ seconds \in 0..MaxProps
  /\ isRunning \in BOOLEAN
  /\ isCountingDown \in BOOLEAN
  /\ isAutoRestart = FALSE
  /\ intervalRef = 0
  /\ timers = {}
  /\ mounted = TRUE
  /\ view = [seconds |-> seconds, isRunning |-> isRunning,
             isCountingDown |-> isCountingDown]
  /\ display = [value |-> 0, target |-> 0, prevMinute |-> 0]
  /\ snapped = FALSE
  /\ screen = [label |-> <<>>, status |-> ""]
  /\ last = "props"
  /\ pre = [seconds |-> 0, isRunning |-> FALSE, isCountingDown |-> FALSE,
            isAutoRestart |-> FALSE, intervalRef |-> 0, timers |-> {},
            mounted |-> TRUE,
            display |-> [value |-> 0, target |-> 0, prevMinute |-> 0]]
  /\ obs = NoObs
  /\ stopped = FALSE
  /\ autoAtStop = FALSE

\* the first render of TimerDisplay
RenderDisplay ==
  /\ last = "props"
  /\ screen' = Rendered(seconds, isRunning, isCountingDown)
  /\ last' = "render"
  /\ UNCHANGED <<seconds, isRunning, isCountingDown, isAutoRestart,
                 intervalRef, timers, mounted, view, display, snapped, pre,
                 obs, stopped, autoAtStop>>

NextDisplay == RenderDisplay

SpecDisplay == InitDisplay /\ [][NextDisplay]_vars

\* ---- vocabulary of the properties ----------------------------------------------
Idle(p) == ~p.isRunning /\ ~p.isCountingDown

\* a driver as the host sees it: which interval, what it does, when it is due
Drivers(T) == {[id |-> t.id, kind |-> t.kind, left |-> t.left] : t \in T}

\* ---- C1 ---------------------------------------------------------------------------
\* C1: under every interleaving of start, stop, reset, toggleAutoRestart and
\* ticks, count is a non-negative integer in every reachable state; no
\* countdown tick takes it below 0.
C1_CountNonNegative == seconds \in Nat

\* a countdown tick was delivered at count 0
C1_Witness ==
  last = "tick" /\ pre.isCountingDown /\ pre.seconds = 0 /\ seconds = 0

\* ---- C2 ---------------------------------------------------------------------------
\* C2: after reset(), from any state, count = 0, isRunning and isCountingDown
\* are false, no tick driver is scheduled, and autoRestart is what it was.
C2_ResetToReady ==
  last = "reset" =>
    /\ seconds = 0
    /\ ~isRunning
    /\ ~isCountingDown
    /\ timers = {}
    /\ isAutoRestart = pre.isAutoRestart

\* reset() during a countdown with autoRestart on and a driver scheduled
C2_Witness ==
  /\ last = "reset"
  /\ pre.isCountingDown /\ pre.seconds > 0 /\ pre.isAutoRestart
  /\ pre.timers # {}

\* ---- C3 ---------------------------------------------------------------------------
\* C3: start() while Running or CountingDown changes nothing: count, flags,
\* autoRestart, and the scheduled driver (same interval, same due time).
C3_StartNoOp ==
  (last = "start" /\ (pre.isRunning \/ pre.isCountingDown)) => Prog = pre

\* start() was called during a countdown whose driver is half way to its tick
C3_Witness ==
  /\ last = "start"
  /\ pre.isCountingDown
  /\ \E t \in timers : t.kind = "dec" /\ t.left < PhaseSteps

\* ---- C4 ---------------------------------------------------------------------------
\* C4: stop() while not Running (Ready, Stopped, CountingDown) changes
\* nothing; in particular it does not interrupt a countdown.
C4_StopNoOp ==
  (last = "stop" /\ ~pre.isRunning) => Prog = pre

\* stop() was called during a countdown
C4_Witness ==
  /\ last = "stop"
  /\ pre.isCountingDown /\ pre.seconds > 0
  /\ \E t \in timers : t.kind = "dec"

C6_LeavesAfterNTicks ==
  obs.live =>
    /\ obs.ticks < obs.from => isCountingDown
    /\ obs.ticks = obs.from => (~isCountingDown /\ seconds = 0)

\* ---- C7 ---------------------------------------------------------------------------
\* C7: with autoRestart on, the tick that follows the countdown's count
\* reaching 0 sets count to 1 and the mode is Running.
C7_NoLostTick ==
  (last = "tick" /\ pre.isCountingDown /\ pre.seconds = 0
     /\ pre.isAutoRestart) =>
    (seconds = 1 /\ isRunning /\ ~isCountingDown)

\* ---- C8 ---------------------------------------------------------------------------
\* C8: with autoRestart off, a completed countdown leaves the engine Stopped
\* (not running, not counting down, count 0, no driver), and it stays so
\* under ticks, stop() and toggleAutoRestart() until start() or reset().
C8_StoppedUntilStartOrReset ==
  /\ (last = "tick" /\ pre.isCountingDown /\ ~isCountingDown
        /\ ~pre.isAutoRestart) => stopped
  /\ stopped =>
       (~isRunning /\ ~isCountingDown /\ seconds = 0 /\ timers = {})
  /\ (Idle(pre) /\ last \notin {"start", "init"}) => Idle(Prog)

\* toggleAutoRestart() was called in the Stopped state
C8_Witness == stopped /\ last = "toggle" /\ isAutoRestart

\* ---- C9 ---------------------------------------------------------------------------
\* C9: toggleAutoRestart() flips autoRestart and nothing else: count and the
\* flags are unchanged and the scheduled driver is the same interval with
\* the same due time.
C9_ToggleOnlyFlips ==
  last = "toggle" =>
    /\ isAutoRestart = ~pre.isAutoRestart
    /\ seconds = pre.seconds
    /\ isRunning = pre.isRunning
    /\ isCountingDown = pre.isCountingDown
    /\ Drivers(timers) = Drivers(pre.timers)

\* ---- C10 --------------------------------------------------------------------------
\* C10: at most one tick driver is scheduled, it is the one intervalRef
\* names, and it matches the mode: the incrementer exactly while Running,
\* the decrementer exactly while CountingDown, none while idle or unmounted;
\* every tick applied to count comes from that driver.
C10_OneDriverMatchingMode ==
  /\ Cardinality(timers) <= 1
  /\ \A t \in timers :
       /\ t.id = intervalRef
       /\ t.auto = isAutoRestart
       /\ t.kind = "inc" => (isRunning /\ ~isCountingDown)
       /\ t.kind = "dec" => isCountingDown
  /\ (mounted /\ (isRunning \/ isCountingDown)) => timers # {}
  /\ (~mounted \/ Idle(Prog)) => timers = {}
  /\ last = "tick" =>
       \E t \in pre.timers :
         /\ t.id = pre.intervalRef
         /\ t.left = 0
         /\ t.kind = (IF pre.isCountingDown THEN "dec" ELSE "inc")

\* the auto-restart replaced the decrementer by the incrementer
C10_Witness ==
  /\ last = "tick"
  /\ pre.isCountingDown /\ isRunning
  /\ \E t \in timers : t.kind = "inc" /\ t.id # pre.intervalRef

\* ---- C11 --------------------------------------------------------------------------
\* C11: a tick while Running adds exactly 1 to count; a tick while
\* CountingDown with count > 0 subtracts exactly 1; no tick while
\* CountingDown raises count and no tick while Running lowers it.
C11_TickStepsByOne ==
  last = "tick" =>
    /\ (pre.isRunning /\ ~pre.isCountingDown) => seconds = pre.seconds + 1
    /\ (pre.isCountingDown /\ pre.seconds > 0) => seconds = pre.seconds - 1
    /\ pre.isCountingDown => seconds <= pre.seconds

\* the incrementer ticked at count 0 with auto-restart on
C11_Witness ==
  /\ last = "tick"
  /\ pre.isRunning /\ pre.seconds = 0 /\ pre.isAutoRestart
  /\ seconds = 1

\* ---- C12 --------------------------------------------------------------------------
\* the last step re-rendered TimerDisplay with a new count or a new
\* isCountingDown, so its effect ran
DisplayUpdated ==
  /\ last \in {"start", "stop", "reset", "toggle", "tick"}
  /\ <<seconds, isCountingDown>> # <<pre.seconds, pre.isCountingDown>>

\* C12: on every display update the animated progress is reset to 0 exactly
\* when floor(count/60) differs from the last observed minute and the engine
\* is not counting down, and the last observed minute is then set to
\* floor(count/60); otherwise both are kept.  The update at 59 -> 60 while
\* Running starts the animation at 0 toward target 0, and no update made
\* while CountingDown resets the progress.
C12_SnapOnMinuteChange ==
  DisplayUpdated =>
    /\ snapped <=>
         ((seconds \div 60) # pre.display.prevMinute /\ ~isCountingDown)
    /\ snapped =>
         (display.value = 0 /\ display.prevMinute = seconds \div 60)
    /\ ~snapped =>
         /\ display.value = pre.display.value
         /\ display.prevMinute = pre.display.prevMinute
    /\ display.target = seconds % 60
    /\ (pre.isRunning /\ pre.seconds = 59 /\ seconds = 60) =>
         (snapped /\ display.value = 0 /\ display.target = 0)
    /\ isCountingDown => ~snapped

\* the tick from 59 to 60 while the ring stood at 59 sixtieths
C12_Witness ==
  /\ last = "tick"
  /\ pre.isRunning /\ pre.seconds = 59 /\ seconds = 60
  /\ pre.display.value = 59
  /\ snapped

\* ---- C20 --------------------------------------------------------------------------
\* C20: whenever the display effect resets the progress to 0 in a run of the
\* engine, count is a multiple of 60, so the animation's target is 0.
C20_SnapOnlyAtFullMinute ==
  snapped => (seconds % 60 = 0 /\ display.target = 0)

\* the reset of the progress at the end of a countdown that began in the
\* second minute
C20_Witness ==
  /\ snapped
  /\ last = "tick"
  /\ pre.isCountingDown /\ pre.display.prevMinute = 1
  /\ seconds = 0

\* ---- C13 --------------------------------------------------------------------------
\* C13: for every combination of count, isRunning and isCountingDown the
\* status text is "Counting Down" when isCountingDown; otherwise "Running"
\* when isRunning; otherwise "Ready" when count = 0; otherwise "Stopped".
C13_StatusText ==
  last = "render" =>
    /\ isCountingDown => screen.status = "Counting Down"
    /\ (~isCountingDown /\ isRunning) => screen.status = "Running"
    /\ (~isCountingDown /\ ~isRunning /\ seconds = 0) =>
         screen.status = "Ready"
    /\ (~isCountingDown /\ ~isRunning /\ seconds # 0) =>
         screen.status = "Stopped"

\* both flags set: the countdown text wins
C13_Witness ==
  /\ last = "render"
  /\ isRunning /\ isCountingDown
  /\ screen.status = "Counting Down"

\* ---- C14 --------------------------------------------------------------------------
\* the digit a character stands for, 10 for any other character
DigitOf(ch) ==
  IF \E d \in 0..9 : Digits[d + 1] = ch
    THEN CHOOSE d \in 0..9 : Digits[d + 1] = ch
    ELSE 10

\* the number a text of decimal digits reads as
RECURSIVE NumberOf(_)
NumberOf(str) ==
  IF str = <<>> THEN 0
  ELSE 10 * NumberOf(SubSeq(str, 1, Len(str) - 1)) + DigitOf(str[Len(str)])

AllDigits(str) == \A i \in 1..Len(str) : DigitOf(str[i]) < 10

\* C14: for every count >= 0 the label is the minutes floor(count/60), padded
\* with a zero to two digits and not wrapped at 60, then ":", then
\* count mod 60 as exactly two digits; 0 gives "00:00", 65 gives "01:05" and
\* 3600 gives "60:00".
C14_FormatTime ==
  last = "render" =>
    LET n == Len(screen.label)
        mm == SubSeq(screen.label, 1, n - 3)
        ss == SubSeq(screen.label, n - 1, n)
    IN /\ n >= 5
       /\ screen.label[n - 2] = ":"
       /\ AllDigits(mm) /\ AllDigits(ss)
       /\ NumberOf(mm) = seconds \div 60
       /\ NumberOf(ss) = seconds % 60
       /\ NumberOf(ss) \in 0..59
       /\ Len(mm) > 2 => mm[1] # "0"
       /\ seconds = 0 => screen.label = <<"0", "0", ":", "0", "0">>
       /\ seconds = 65 => screen.label = <<"0", "1", ":", "0", "5">>
       /\ seconds = 3600 => screen.label = <<"6", "0", ":", "0", "0">>

\* one hour is rendered as sixty minutes
C14_Witness ==
  /\ last = "render"
  /\ seconds = 3600
  /\ screen.label = <<"6", "0", ":", "0", "0">>

\* ---- C15 --------------------------------------------------------------------------
\* C15: the tick that ends a countdown enters Running exactly when
\* autoRestart is true at that tick, and otherwise leaves the engine idle
\* with count 0, whatever autoRestart was when stop() began the countdown.
C15_CompletionUsesCurrentAutoRestart ==
  (last = "tick" /\ pre.isCountingDown /\ ~isCountingDown) =>
    /\ isRunning <=> pre.isAutoRestart
    /\ seconds = 0
    /\ ~pre.isAutoRestart => stopped

\* a countdown begun with autoRestart off ended in Running
C15_Witness ==
  /\ last = "tick"
  /\ pre.isCountingDown /\ ~isCountingDown
  /\ ~autoAtStop /\ pre.isAutoRestart
  /\ isRunning

\* ---- C16 --------------------------------------------------------------------------
\* C16: stop() processed while Running with a count > 0 set by an earlier
\* tick enters CountingDown with that count, also when the tick's re-render
\* has not run yet.
C16_StopUsesCurrentCount ==
  (last = "stop" /\ pre.isRunning /\ pre.seconds > 0) =>
    (isCountingDown /\ ~isRunning /\ seconds = pre.seconds)

\* ---- C18 --------------------------------------------------------------------------
\* C18: in every reachable state isRunning and isCountingDown are not both
\* true.
C18_OneModeAtATime == ~(isRunning /\ isCountingDown)

\* stop() has just turned Running into CountingDown
C18_Witness ==
  /\ last = "stop"
  /\ pre.isRunning /\ ~pre.isCountingDown
  /\ isCountingDown /\ ~isRunning

\* ---- C19 --------------------------------------------------------------------------
\* C19: with commands and ticks applied atomically, count is 0 in every
\* state where the engine is neither Running nor CountingDown, so the status
\* text of an idle engine is "Ready" and "Stopped" is never rendered.
C19_IdleMeansZero ==
  /\ Idle(Prog) => (seconds = 0 /\ screen.status = "Ready")
  /\ screen.status # "Stopped"

\* the countdown has just completed without restart
C19_Witness ==
  /\ last = "tick"
  /\ stopped /\ pre.isCountingDown
  /\ screen.status = "Ready"

\* ---- C17 --------------------------------------------------------------------------
\* the operations that end the premise "no further command is issued"
Interruptions == {"start", "stop", "reset", "toggle"}

\* C17: a countdown never runs forever.  With fair ticks, a countdown that
\* stop() began and no command has interrupted reaches a state outside
\* CountingDown with count 0, Running exactly when autoRestart is true; and
\* in every behaviour where commands cease the engine, while mounted, is
\* outside CountingDown again and again.
C17_CountdownEnds ==
  /\ (obs.live /\ isCountingDown) ~>
       \/ ~obs.live
       \/ ~isCountingDown /\ seconds = 0 /\ (isRunning <=> isAutoRestart)
  /\ (<>[][last' \notin Interruptions]_vars) =>
       []<>(~isCountingDown \/ ~mounted)

\* an uninterrupted countdown from 2 has just ended
C17_Witness ==
  /\ last = "tick"
  /\ obs.live /\ obs.from = 2 /\ obs.ticks = 3
  /\ ~isCountingDown /\ seconds = 0

====
